---- MODULE Spec2Model ----
(***************************************************************************)
(* GitHub App installation-token generation                               *)
(* (packages/modal-infra/src/auth/github_app.py).                          *)
(*                                                                         *)
(* Python strings are modelled as sequences of one-character strings, so   *)
(* that split, replace, startswith, strip and slicing are computed the way *)
(* the interpreter computes them.                                          *)
(***************************************************************************)
EXTENDS Integers, Sequences, FiniteSets, TLC

VARIABLES
    clock,      \* time.time(), counted in ticks of 1/TicksPerSec second
    pc,         \* pc[c]: where caller c stands in generate_installation_token
    args,       \* args[c]: the arguments of c's running call
    key,        \* key[c]: the local private_key after line 143
    now,        \* now[c]: the local `now` of generate_jwt (line 33)
    jwt_token,  \* jwt_token[c]: the local jwt_token (line 151)
    posts,      \* posts[c]: the POST requests c's running call has issued
    response,   \* response[c]: the authority's answer to c's request
    result,     \* result[c]: what the call returned or raised
    calls,      \* calls[c]: number of calls c has started so far
    log,        \* the module-level logger's sink (line 19)
    raw,        \* normalizer harness: the key string under test
    passes,     \* normalizer harness: how often _normalize_pem_key was applied
    once,       \* normalizer harness: result of the first application
    cur         \* normalizer harness: result of the latest application

pipeVars == <<clock, pc, args, key, now, jwt_token, posts, response, result, calls>>
normVars == <<raw, passes, once, cur>>
vars == <<clock, pc, args, key, now, jwt_token, posts, response, result, calls,
          log, raw, passes, once, cur>>

----------------------------------------------------------------------------
(* Bounds of the model *)

MaxBody == 3        \* longest free part of a key string under test
MaxClock == 3       \* last tick of the clock
MaxCalls == 2       \* calls the callers may start in all

----------------------------------------------------------------------------
(* Characters and string literals of the source *)

NL == "\n"          \* a real line break
BS == "\\"          \* a backslash
ESCAPED_NL == <<BS, "n">>                   \* the two characters of "\\n"

Whitespace == {" ", "\n", "\t", "\r"}       \* what str.strip() removes

Dashes == <<"-", "-", "-", "-", "-">>
PRIVATE_KEY_WORDS == <<"P", "R", "I", "V", "A", "T", "E", " ", "K", "E", "Y">>
BEGIN_MARK == Dashes \o <<"B", "E", "G", "I", "N">>            \* "-----BEGIN"
PKCS8_HEADER == BEGIN_MARK \o <<" ">> \o PRIVATE_KEY_WORDS \o Dashes
PKCS8_FOOTER == Dashes \o <<"E", "N", "D", " ">> \o PRIVATE_KEY_WORDS \o Dashes
PKCS1_HEADER == BEGIN_MARK \o <<" ", "R", "S", "A", " ">> \o PRIVATE_KEY_WORDS \o Dashes
PKCS1_FOOTER == Dashes \o <<"E", "N", "D", " ", "R", "S", "A", " ">>
                    \o PRIVATE_KEY_WORDS \o Dashes
ENCRYPTED_HEADER == BEGIN_MARK \o <<" ", "E", "N", "C", "R", "Y", "P", "T", "E", "D", " ">>
                    \o PRIVATE_KEY_WORDS \o Dashes

----------------------------------------------------------------------------
(* Python str operations *)

Min(a, b) == IF a <= b THEN a ELSE b

\* s[:n]
Slice(s, n) == SubSeq(s, 1, Min(n, Len(s)))

\* s.startswith(p)
StartsWith(s, p) == Len(p) <= Len(s) /\ SubSeq(s, 1, Len(p)) = p

\* sub in s
Contains(s, sub) ==
    \E i \in 1..(Len(s) - Len(sub) + 1) : SubSeq(s, i, i + Len(sub) - 1) = sub

\* s.replace(old, new): every non-overlapping occurrence, left to right
RECURSIVE Replace(_, _, _)
Replace(s, old, new) ==
    IF Len(s) < Len(old) THEN s
    ELSE IF SubSeq(s, 1, Len(old)) = old
         THEN new \o Replace(SubSeq(s, Len(old) + 1, Len(s)), old, new)
         ELSE <<Head(s)>> \o Replace(Tail(s), old, new)

\* s.split("\n")[0]
RECURSIVE FirstLine(_)
FirstLine(s) ==
    IF s = <<>> \/ Head(s) = NL THEN <<>> ELSE <<Head(s)>> \o FirstLine(Tail(s))

RECURSIVE LStrip(_)
LStrip(s) == IF s # <<>> /\ Head(s) \in Whitespace THEN LStrip(Tail(s)) ELSE s

RECURSIVE RStrip(_)
RStrip(s) ==
    IF s # <<>> /\ s[Len(s)] \in Whitespace THEN RStrip(SubSeq(s, 1, Len(s) - 1)) ELSE s

\* s.strip()
Strip(s) == RStrip(LStrip(s))

----------------------------------------------------------------------------
(* _normalize_pem_key, lines 69-116 *)

\* line 76 (n = 60) and line 145 (n = 50)
KeyHeader(private_key, n) ==
    IF Contains(private_key, <<NL>>) THEN FirstLine(private_key) ELSE Slice(private_key, n)

\* line 77
WasEscaped(private_key) == Contains(private_key, ESCAPED_NL)

\* s.replace(old, new, 1)
RECURSIVE ReplaceFirst(_, _, _)
ReplaceFirst(s, old, new) ==
    IF Len(s) < Len(old) THEN s
    ELSE IF SubSeq(s, 1, Len(old)) = old
         THEN new \o SubSeq(s, Len(old) + 1, Len(s))
         ELSE <<Head(s)>> \o ReplaceFirst(Tail(s), old, new)

\* a de-escaping that stops after the first escaped newline
UnescapeFirst(private_key) ==
    IF WasEscaped(private_key) THEN ReplaceFirst(private_key, ESCAPED_NL, <<NL>>)
    ELSE private_key

\* lines 79-80: the key after de-escaping
Unescape(private_key) ==
    IF WasEscaped(private_key) THEN Replace(private_key, ESCAPED_NL, <<NL>>) ELSE private_key

\* a header test that knows the PKCS#8 armor only
HasPkcs8Header(private_key) == StartsWith(private_key, PKCS8_HEADER)

\* line 89
HasPemHeader(private_key) == StartsWith(private_key, BEGIN_MARK)

\* a reconstruction in PKCS#1 armor
ReconstructPkcs1(private_key) ==
    PKCS1_HEADER \o <<NL>> \o Strip(private_key) \o <<NL>> \o PKCS1_FOOTER

\* lines 111-113
Reconstruct(private_key) ==
    PKCS8_HEADER \o <<NL>> \o Strip(private_key) \o <<NL>> \o PKCS8_FOOTER

\* lines 103-116: the value returned for the de-escaped key
WrapIfHeaderless(private_key) ==
    IF ~HasPemHeader(private_key) THEN Strip(Reconstruct(private_key))
    ELSE Strip(private_key)

_normalize_pem_key(private_key) == WrapIfHeaderless(Unescape(private_key))

----------------------------------------------------------------------------
(* The logger of line 19: a process-wide sink of structured events *)

Event(level, event, fields) == [level |-> level, event |-> event, fields |-> fields]

\* the events _normalize_pem_key emits for its argument (lines 81-114)
NormalizerEvents(private_key) ==
    LET key_header == KeyHeader(private_key, 60)
        unescaped == Unescape(private_key)
    IN  { Event("warn", "github.key_normalized",
                [was_escaped |-> WasEscaped(private_key), key_header |-> key_header]),
          Event("warn", "github.key_format_check",
                [is_pkcs1 |-> Contains(unescaped, PKCS1_HEADER),
                 is_pkcs8 |-> Contains(unescaped, PKCS8_HEADER),
                 is_encrypted |-> Contains(unescaped, ENCRYPTED_HEADER),
                 has_pem_header |-> HasPemHeader(unescaped),
                 key_length |-> Len(unescaped),
                 first_line |-> key_header]) }
        \cup
        IF ~HasPemHeader(unescaped)
        THEN { Event("warn", "github.key_missing_header",
                     [key_prefix |-> Slice(unescaped, 200),
                      key_length |-> Len(unescaped),
                      attempting_reconstruct |-> TRUE]),
               Event("warn", "github.key_reconstructed", [new_header |-> PKCS8_HEADER]) }
        ELSE {}

\* lines 145-148
JwtAttemptEvent(app_id, private_key) ==
    Event("debug", "github.jwt_attempt",
          [app_id |-> app_id, key_header |-> KeyHeader(private_key, 50),
           key_length |-> Len(private_key)])

\* lines 153-167
InvalidKeyEvent(private_key) ==
    Event("error", "github.jwt_invalid_key",
          [error_type |-> "InvalidKeyError",
           key_header |-> KeyHeader(private_key, 50),
           key_has_begin |-> StartsWith(private_key, BEGIN_MARK),
           is_pkcs1 |-> Contains(private_key, PKCS1_HEADER),
           is_pkcs8 |-> Contains(private_key, PKCS8_HEADER),
           key_length |-> Len(private_key),
           key_sample |-> IF Len(private_key) > 100 THEN Slice(private_key, 100)
                          ELSE private_key])

----------------------------------------------------------------------------
(* Normalizer harness: a key string, normalized once and then once more *)

BodyChars == {BS, "n", NL, " ", "k"}

RECURSIVE StringsUpTo(_)
StringsUpTo(n) ==
    IF n = 0 THEN {<<>>}
    ELSE LET shorter == StringsUpTo(n - 1)
         IN  shorter \cup {Append(s, ch) : s \in shorter, ch \in BodyChars}

KeyPrefixes == {<<>>, BEGIN_MARK, PKCS8_HEADER, PKCS1_HEADER,
                <<" ">> \o PKCS8_HEADER, ESCAPED_NL \o PKCS8_HEADER}
KeySuffixes == {<<>>, <<NL>> \o PKCS8_FOOTER, ESCAPED_NL \o PKCS8_FOOTER,
                <<NL>> \o PKCS8_FOOTER \o <<NL>>}

RawKeys == {p \o b \o s : p \in KeyPrefixes, b \in StringsUpTo(MaxBody), s \in KeySuffixes}

NormalizeOnce ==
    /\ passes = 0
    /\ cur' = _normalize_pem_key(raw)
    /\ once' = cur'
    /\ passes' = 1
    /\ log' = log \cup NormalizerEvents(raw)
    /\ UNCHANGED <<raw, pipeVars>>

NormalizeAgain ==
    /\ passes = 1
    /\ cur' = _normalize_pem_key(cur)
    /\ passes' = 2
    /\ log' = log \cup NormalizerEvents(cur)
    /\ UNCHANGED <<raw, once, pipeVars>>

----------------------------------------------------------------------------
(* generate_jwt, lines 22-39 *)

TicksPerSec == 2    \* clock ticks per second: time.time() is finer than int()
IAT_SKEW == 60
EXP_LIFETIME == 600

\* line 33: int(time.time())
IntTime(ticks) == ticks \div TicksPerSec

\* a claim set that lives an hour
PayloadHourLong(app_id, t) == [iat |-> t - 60, exp |-> t + 3600, iss |-> app_id]

\* lines 34-38
Payload(app_id, t) == [iat |-> t - IAT_SKEW, exp |-> t + EXP_LIFETIME, iss |-> app_id]

\* What the RS256 key loader behind jwt.encode (line 39) accepts: PEM armor of
\* an RSA private key around well-formed key material.  "k" stands for
\* well-formed base64 key material; every other character is not.
KeyMaterial == {"k"}

Armored(s, header, footer) ==
    LET open == header \o <<NL>>
        close == <<NL>> \o footer
        n == Len(s) - Len(open) - Len(close)
    IN  /\ n > 0
        /\ SubSeq(s, 1, Len(open)) = open
        /\ SubSeq(s, Len(s) - Len(close) + 1, Len(s)) = close
        /\ \A i \in (Len(open) + 1)..(Len(open) + n) : s[i] \in KeyMaterial

LoadsAsPrivateKey(private_key) ==
    \/ Armored(private_key, PKCS8_HEADER, PKCS8_FOOTER)
    \/ Armored(private_key, PKCS1_HEADER, PKCS1_FOOTER)

\* line 39: the compact signed assertion, as its claim set, algorithm and signer
Encode(payload, private_key) == [payload |-> payload, alg |-> "RS256", signer |-> private_key]

NoJwt == [payload |-> [iat |-> 0, exp |-> 0, iss |-> ""], alg |-> "", signer |-> <<>>]

\* lines 33-39 for the reading t of the clock: the assertion, or the key error
\* jwt.encode raises for a key it cannot load (the one line 152 catches)
generate_jwt(app_id, private_key, t) ==
    IF LoadsAsPrivateKey(private_key)
    THEN [ok |-> TRUE, jwt |-> Encode(Payload(app_id, t), private_key), error |-> ""]
    ELSE [ok |-> FALSE, jwt |-> NoJwt, error |-> "jwt.exceptions.InvalidKeyError"]

\* a handler that raises an error of its own in place of the one it caught
HandlerWraps(caught) == "RuntimeError"

\* lines 152-168: the handler logs and re-raises what it caught
HandlerRaises(caught) == caught

----------------------------------------------------------------------------
(* get_installation_token, lines 42-66 *)

\* JSON text as a sequence of lexical tokens
Punct(x) == [t |-> "punct", v |-> x]
Str(x) == [t |-> "str", v |-> x]
Lit(x) == [t |-> "lit", v |-> x]
Text(x) == [t |-> "text", v |-> x]

JsonValue(t, s, pairs, items) == [t |-> t, s |-> s, pairs |-> pairs, items |-> items]
JsonInvalid == JsonValue("invalid", "", <<>>, <<>>)

\* name : "value" {, name : "value"}
RECURSIVE ParseMembers(_)
ParseMembers(toks) ==
    IF Len(toks) >= 3 /\ toks[1].t = "str" /\ toks[2] = Punct(":") /\ toks[3].t = "str"
    THEN LET first == <<toks[1].v, toks[3].v>>
         IN  IF Len(toks) = 3 THEN [ok |-> TRUE, pairs |-> <<first>>]
             ELSE IF toks[4] = Punct(",")
                  THEN LET rest == ParseMembers(SubSeq(toks, 5, Len(toks)))
                       IN  [ok |-> rest.ok, pairs |-> <<first>> \o rest.pairs]
                  ELSE [ok |-> FALSE, pairs |-> <<>>]
    ELSE [ok |-> FALSE, pairs |-> <<>>]

\* "value" {, "value"}
RECURSIVE ParseItems(_)
ParseItems(toks) ==
    IF Len(toks) >= 1 /\ toks[1].t = "str"
    THEN IF Len(toks) = 1 THEN [ok |-> TRUE, items |-> <<toks[1].v>>]
         ELSE IF toks[2] = Punct(",")
              THEN LET rest == ParseItems(SubSeq(toks, 3, Len(toks)))
                   IN  [ok |-> rest.ok, items |-> <<toks[1].v>> \o rest.items]
              ELSE [ok |-> FALSE, items |-> <<>>]
    ELSE [ok |-> FALSE, items |-> <<>>]

\* response.json(), line 66
ParseJson(body) ==
    LET n == Len(body)
        inner == SubSeq(body, 2, n - 1)
    IN  IF n = 1 /\ body[1].t = "str" THEN JsonValue("string", body[1].v, <<>>, <<>>)
        ELSE IF n = 1 /\ body[1] = Lit("null") THEN JsonValue("null", "", <<>>, <<>>)
        ELSE IF n >= 2 /\ body[1] = Punct("{") /\ body[n] = Punct("}")
        THEN IF n = 2 THEN JsonValue("object", "", <<>>, <<>>)
             ELSE LET m == ParseMembers(inner)
                  IN  IF m.ok THEN JsonValue("object", "", m.pairs, <<>>) ELSE JsonInvalid
        ELSE IF n >= 2 /\ body[1] = Punct("[") /\ body[n] = Punct("]")
        THEN IF n = 2 THEN JsonValue("array", "", <<>>, <<>>)
             ELSE LET m == ParseItems(inner)
                  IN  IF m.ok THEN JsonValue("array", "", <<>>, m.items) ELSE JsonInvalid
        ELSE JsonInvalid

\* dict lookup: the last member of that name wins
HasMember(pairs, name) == \E i \in 1..Len(pairs) : pairs[i][1] = name

\* a lookup that takes the object's first member, whatever its name
MemberFirst(pairs, name) == pairs[1][2]

Member(pairs, name) ==
    LET last == CHOOSE i \in 1..Len(pairs) :
                    /\ pairs[i][1] = name
                    /\ \A j \in (i + 1)..Len(pairs) : pairs[j][1] # name
    IN  pairs[last][2]

NoResponse == [status |-> 0, body |-> <<>>]
NoResult == [kind |-> "none", value |-> "", type |-> "", response |-> NoResponse]
Return(value) == [kind |-> "return", value |-> value, type |-> "", response |-> NoResponse]
Raise(type, resp) == [kind |-> "raise", value |-> "", type |-> type, response |-> resp]

\* a status check that lets everything below 400 through
IsNotError(status) == status < 400

\* response.raise_for_status(), line 65: every status outside 2xx raises
IsSuccess(status) == status \div 100 = 2

\* response.json().get("token"): no token field gives None, here ""
TokenOfLenient(resp) ==
    LET json == ParseJson(resp.body)
    IN  IF json.t = "invalid" THEN Raise("json.JSONDecodeError", NoResponse)
        ELSE IF json.t # "object" THEN Raise("TypeError", NoResponse)
        ELSE IF ~HasMember(json.pairs, "token") THEN Return("")
        ELSE Return(Member(json.pairs, "token"))

\* response.json()["token"], line 66
TokenOf(resp) ==
    LET json == ParseJson(resp.body)
    IN  IF json.t = "invalid" THEN Raise("json.JSONDecodeError", NoResponse)
        ELSE IF json.t # "object" THEN Raise("TypeError", NoResponse)
        ELSE IF ~HasMember(json.pairs, "token") THEN Raise("KeyError", NoResponse)
        ELSE Return(Member(json.pairs, "token"))

\* lines 65-66: what get_installation_token does with the authority's answer
Exchange(resp) ==
    IF ~IsSuccess(resp.status) THEN Raise("httpx.HTTPStatusError", resp) ELSE TokenOf(resp)

\* a request built from an assertion kept at module level: the assertion of
\* whichever call signed one
RequestSharedJwt(jwt, installation_id) ==
    LET holder == CHOOSE d \in DOMAIN jwt_token : jwt_token[d] # NoJwt
    IN  [method |-> "POST",
         url |-> <<"https://api.github.com/app/installations/", installation_id,
                   "/access_tokens">>,
         authorization |-> [scheme |-> "Bearer", credentials |-> jwt_token[holder]],
         accept |-> "application/vnd.github+json",
         api_version |-> "2022-11-28"]

\* lines 56-61
Request(jwt, installation_id) ==
    [method |-> "POST",
     url |-> <<"https://api.github.com/app/installations/", installation_id,
               "/access_tokens">>,
     authorization |-> [scheme |-> "Bearer", credentials |-> jwt],
     accept |-> "application/vnd.github+json",
     api_version |-> "2022-11-28"]

----------------------------------------------------------------------------
(* Callers of generate_installation_token and the authority's answers *)

Callers == {"c1", "c2"}

ValidPem == PKCS8_HEADER \o <<NL, "k", NL>> \o PKCS8_FOOTER
EscapedBareKey == <<"k">> \o ESCAPED_NL                 \* no armor, flattened newline
GarbageInArmor == PKCS8_HEADER \o <<NL, "n", NL>> \o PKCS8_FOOTER
EmptyKey == <<>>
PipelineKeys == {ValidPem, EscapedBareKey, GarbageInArmor, EmptyKey}

SuccessStatuses == {200, 201}
FailureStatuses == {302, 401}

TokenBody(tok) == <<Punct("{"), Str("token"), Punct(":"), Str(tok), Punct("}")>>
TokenWithExpiryBody(tok) ==
    <<Punct("{"), Str("expires_at"), Punct(":"), Str("2026-01-01T00:00:00Z"), Punct(","),
      Str("token"), Punct(":"), Str(tok), Punct("}")>>
ErrorBody == <<Punct("{"), Str("message"), Punct(":"), Str("Bad credentials"), Punct("}")>>
ArrayBody == <<Punct("["), Str("ghs_abc123"), Punct("]")>>
StringBody == <<Str("token")>>
HtmlBody == <<Text("<html>")>>
TruncatedBody == <<Punct("{"), Str("token"), Punct(":")>>
Bodies == {TokenBody("ghs_abc123"), TokenWithExpiryBody("ghs_def456"),
           ErrorBody, ArrayBody, StringBody, HtmlBody, TruncatedBody}
\* the answers the authority gives: every body under a success status, and
\* rejections and redirects with and without a token in the body
Responses == [status : SuccessStatuses, body : Bodies]
                 \cup [status : FailureStatuses, body : {ErrorBody, TokenBody("ghs_abc123")}]

\* the argument triples callers pass
CallInputs == {[app_id |-> "app1", private_key |-> ValidPem, installation_id |-> "inst1"],
               [app_id |-> "app2", private_key |-> EscapedBareKey, installation_id |-> "inst2"],
               [app_id |-> "app1", private_key |-> GarbageInArmor, installation_id |-> "inst2"],
               [app_id |-> "app2", private_key |-> EmptyKey, installation_id |-> "inst1"]}

RECURSIVE Sum(_, _)
Sum(f, S) == IF S = {} THEN 0 ELSE LET x == CHOOSE y \in S : TRUE IN f[x] + Sum(f, S \ {x})

NoArgs == [app_id |-> "", private_key |-> <<>>, installation_id |-> ""]

----------------------------------------------------------------------------
(* generate_installation_token, lines 119-170, one action per step *)

\* the call is entered with the caller's arguments
Call(c, app_id, private_key, installation_id) ==
    /\ pc[c] = "idle"
    /\ Sum(calls, Callers) < MaxCalls
    /\ calls' = [calls EXCEPT ![c] = @ + 1]
    /\ args' = [args EXCEPT ![c] = [app_id |-> app_id, private_key |-> private_key,
                                    installation_id |-> installation_id]]
    /\ pc' = [pc EXCEPT ![c] = "normalize"]
    /\ UNCHANGED <<clock, key, now, jwt_token, posts, response, result, log, normVars>>

\* lines 143-148
Normalize(c) ==
    /\ pc[c] = "normalize"
    /\ key' = [key EXCEPT ![c] = _normalize_pem_key(args[c].private_key)]
    /\ log' = log \cup NormalizerEvents(args[c].private_key)
                  \cup {JwtAttemptEvent(args[c].app_id, key'[c])}
    /\ pc' = [pc EXCEPT ![c] = "sign"]
    /\ UNCHANGED <<clock, args, now, jwt_token, posts, response, result, calls, normVars>>

\* line 151 entering generate_jwt, line 33
ReadClock(c) ==
    /\ pc[c] = "sign"
    /\ now' = [now EXCEPT ![c] = IntTime(clock)]
    /\ pc' = [pc EXCEPT ![c] = "encode"]
    /\ UNCHANGED <<clock, args, key, jwt_token, posts, response, result, calls, log,
                   normVars>>

\* lines 34-39 and the handler of lines 152-168
Sign(c) ==
    /\ pc[c] = "encode"
    /\ LET signed == generate_jwt(args[c].app_id, key[c], now[c])
       IN  IF signed.ok
           THEN /\ jwt_token' = [jwt_token EXCEPT ![c] = signed.jwt]
                /\ pc' = [pc EXCEPT ![c] = "post"]
                /\ UNCHANGED <<result, log>>
           ELSE /\ log' = log \cup {InvalidKeyEvent(key[c])}
                /\ result' = [result EXCEPT
                                 ![c] = Raise(HandlerRaises(signed.error), NoResponse)]
                /\ pc' = [pc EXCEPT ![c] = "done"]
                /\ UNCHANGED jwt_token
    /\ UNCHANGED <<clock, args, key, now, posts, response, calls, normVars>>

\* line 170 entering get_installation_token, lines 56-64: the request goes out
Post(c) ==
    /\ pc[c] = "post"
    /\ posts' = [posts EXCEPT
                    ![c] = Append(@, Request(jwt_token[c], args[c].installation_id))]
    /\ pc' = [pc EXCEPT ![c] = "await"]
    /\ UNCHANGED <<clock, args, key, now, jwt_token, response, result, calls, log,
                   normVars>>

\* an exchange that posts once more after a rejection
RespondWithRetry(c, resp) ==
    /\ pc[c] = "await"
    /\ response' = [response EXCEPT ![c] = resp]
    /\ IF ~IsSuccess(resp.status) /\ Len(posts[c]) < 2
       THEN /\ pc' = [pc EXCEPT ![c] = "post"]
            /\ UNCHANGED result
       ELSE /\ result' = [result EXCEPT ![c] = Exchange(resp)]
            /\ pc' = [pc EXCEPT ![c] = "done"]
    /\ UNCHANGED <<clock, args, key, now, jwt_token, posts, calls, log, normVars>>

\* line 64 returns with the authority's answer; lines 65-66
Respond(c, resp) ==
    /\ pc[c] = "await"
    /\ response' = [response EXCEPT ![c] = resp]
    /\ result' = [result EXCEPT ![c] = Exchange(resp)]
    /\ pc' = [pc EXCEPT ![c] = "done"]
    /\ UNCHANGED <<clock, args, key, now, jwt_token, posts, calls, log, normVars>>

\* line 64 raises: the authority was not reached
NetworkFailure(c) ==
    /\ pc[c] = "await"
    /\ result' = [result EXCEPT ![c] = Raise("httpx.TransportError", NoResponse)]
    /\ pc' = [pc EXCEPT ![c] = "done"]
    /\ UNCHANGED <<clock, args, key, now, jwt_token, posts, response, calls, log,
                   normVars>>

\* the caller has its token or its exception; the call's locals are gone
Finish(c) ==
    /\ pc[c] = "done"
    /\ pc' = [pc EXCEPT ![c] = "idle"]
    /\ args' = [args EXCEPT ![c] = NoArgs]
    /\ key' = [key EXCEPT ![c] = <<>>]
    /\ now' = [now EXCEPT ![c] = 0]
    /\ jwt_token' = [jwt_token EXCEPT ![c] = NoJwt]
    /\ posts' = [posts EXCEPT ![c] = <<>>]
    /\ response' = [response EXCEPT ![c] = NoResponse]
    /\ result' = [result EXCEPT ![c] = NoResult]
    /\ UNCHANGED <<clock, calls, log, normVars>>

\* time passes
Tick ==
    /\ clock < MaxClock
    /\ clock' = clock + 1
    /\ UNCHANGED <<pc, args, key, now, jwt_token, posts, response, result, calls, log,
                   normVars>>

----------------------------------------------------------------------------
(* Specifications *)

PipeInit ==
    /\ clock = 0
    /\ pc = [c \in Callers |-> "idle"]
    /\ args = [c \in Callers |-> NoArgs]
    /\ key = [c \in Callers |-> <<>>]
    /\ now = [c \in Callers |-> 0]
    /\ jwt_token = [c \in Callers |-> NoJwt]
    /\ posts = [c \in Callers |-> <<>>]
    /\ response = [c \in Callers |-> NoResponse]
    /\ result = [c \in Callers |-> NoResult]
    /\ calls = [c \in Callers |-> 0]
    /\ log = {}

Init ==
    /\ PipeInit
    /\ raw = <<>>
    /\ passes = 0
    /\ once = <<>>
    /\ cur = <<>>

Next ==
    \/ Tick
    \/ \E c \in Callers, in \in CallInputs :
           Call(c, in.app_id, in.private_key, in.installation_id)
    \/ \E c \in Callers : Normalize(c)
    \/ \E c \in Callers : ReadClock(c)
    \/ \E c \in Callers : Sign(c)
    \/ \E c \in Callers : Post(c)
    \/ \E c \in Callers, resp \in Responses : Respond(c, resp)
    \/ \E c \in Callers : NetworkFailure(c)
    \/ \E c \in Callers : Finish(c)

Spec == Init /\ [][Next]_vars

NormInit ==
    /\ PipeInit
    /\ raw \in RawKeys
    /\ passes = 0
    /\ once = <<>>
    /\ cur = raw

NormNext == NormalizeOnce \/ NormalizeAgain

SpecNorm == NormInit /\ [][NormNext]_vars

----------------------------------------------------------------------------
(* Properties of the key normalizer, under SpecNorm *)

\* t is s without its leading and trailing whitespace, and nothing else changed
TrimOf(s, t) ==
    \E a, b \in 0..Len(s) :
        /\ a + b <= Len(s)
        /\ t = SubSeq(s, a + 1, Len(s) - b)
        /\ \A i \in 1..a : s[i] \in Whitespace
        /\ \A i \in (Len(s) - b + 1)..Len(s) : s[i] \in Whitespace
        /\ t # <<>> => (t[1] \notin Whitespace /\ t[Len(t)] \notin Whitespace)

Headerless(s) == ~StartsWith(s, BEGIN_MARK)
Unescaped(s) == ~Contains(s, ESCAPED_NL)

\* s is the PKCS#8 header line, then `middle`, then the footer line
WrapsExactly(s, middle) == s = PKCS8_HEADER \o <<NL>> \o middle \o <<NL>> \o PKCS8_FOOTER

\* what an armored string holds between its header line and its footer line
Between(s) == SubSeq(s, Len(PKCS8_HEADER) + 2, Len(s) - Len(PKCS8_FOOTER) - 1)

\* C5 as stated: a key with no "-----BEGIN" prefix and no escaped newline is
\* returned as header line, the input byte for byte, footer line.
C5_AsStated ==
    (passes >= 1 /\ Headerless(raw) /\ Unescaped(raw)) => WrapsExactly(once, raw)

\* C5, amended: a key with no "-----BEGIN" prefix and no escaped newline is
\* returned as the PKCS#8 header line, the input without its leading and
\* trailing whitespace (and otherwise byte for byte), and the footer line.
C5_WrapsTrimmedContent ==
    (passes >= 1 /\ Headerless(raw) /\ Unescaped(raw)) =>
        /\ WrapsExactly(once, Between(once))
        /\ TrimOf(raw, Between(once))

C5_Witness ==
    /\ passes >= 1 /\ Headerless(raw) /\ Unescaped(raw)
    /\ Len(raw) >= 2 /\ raw[1] \in Whitespace /\ raw[Len(raw)] = "k"
    /\ StartsWith(once, PKCS8_HEADER)

\* C6: for a key holding at least one escaped newline, normalizing the
\* normalized key changes nothing: normalize(normalize(k)) = normalize(k).
C6_IdempotentAfterFirstPass ==
    (passes = 2 /\ Contains(raw, ESCAPED_NL)) => cur = once

C6_Witness ==
    /\ passes = 2 /\ Contains(raw, ESCAPED_NL) /\ Headerless(raw)
    /\ Contains(raw, <<"k">>)
    /\ once # raw /\ cur = once

\* C7: a key that begins with "-----BEGIN" and holds no escaped newline is
\* returned with only its leading and trailing whitespace removed.
C7_HeaderedKeyOnlyTrimmed ==
    (passes >= 1 /\ StartsWith(raw, BEGIN_MARK) /\ Unescaped(raw)) => TrimOf(raw, once)

C7_Witness ==
    /\ passes >= 1 /\ StartsWith(raw, BEGIN_MARK) /\ Unescaped(raw)
    /\ Contains(raw, <<NL>>)
    /\ raw[Len(raw)] \in Whitespace
    /\ once # raw

----------------------------------------------------------------------------
(* Properties of generate_installation_token, under Spec *)

Signed(c) == jwt_token[c] # NoJwt
PastSigning(c) == pc[c] \in {"post", "await", "done"}
Answered(c) == pc[c] = "done" /\ response[c] # NoResponse
SuccessStatus(status) == status \in 200..299

INVALID_KEY == "jwt.exceptions.InvalidKeyError"         \* InvalidKeyMaterial
STATUS_ERROR == "httpx.HTTPStatusError"                 \* AuthorityRejected

\* C1: when signing succeeded and the authority answers with a success status
\* and a JSON object holding a token field, the call returns that field's value.
C1_ReturnsTokenField ==
    \A c \in Callers, tok \in {"ghs_abc123", "ghs_def456"} :
        (/\ Answered(c)
         /\ SuccessStatus(response[c].status)
         /\ response[c].body \in {TokenBody(tok), TokenWithExpiryBody(tok)})
        => result[c] = [kind |-> "return", value |-> tok, type |-> "",
                        response |-> NoResponse]

C1_Witness ==
    \E c, d \in Callers :
        /\ Answered(c) /\ response[c] = [status |-> 200, body |-> TokenBody("ghs_abc123")]
        /\ result[c].value = "ghs_abc123"
        /\ Answered(d) /\ response[d].body = TokenWithExpiryBody("ghs_def456")
        /\ result[d].value = "ghs_def456"

C3_RejectionRaisesStatusError ==
    \A c \in Callers :
        (Answered(c) /\ ~SuccessStatus(response[c].status))
        => result[c] = [kind |-> "raise", value |-> "", type |-> STATUS_ERROR,
                        response |-> response[c]]

C3_Witness ==
    \E c, d \in Callers :
        /\ Answered(c) /\ response[c] = [status |-> 401, body |-> ErrorBody]
        /\ result[c].response.body = ErrorBody /\ result[c].response.status = 401
        /\ Answered(d) /\ response[d] = [status |-> 302, body |-> TokenBody("ghs_abc123")]
        /\ result[d].kind = "raise"

UnparseableBodies == {HtmlBody, TruncatedBody}
TokenlessObjects == {ErrorBody}
TokenlessNonObjects == {ArrayBody, StringBody}

\* the authority answered c with a success status and a body that is not JSON
\* or is JSON without a token field
Malformed(c) ==
    /\ Answered(c)
    /\ SuccessStatus(response[c].status)
    /\ response[c].body \in UnparseableBodies \cup TokenlessObjects \cup TokenlessNonObjects

C8_AssertionTimestamps ==
    \A c \in Callers :
        (PastSigning(c) /\ Signed(c))
        => /\ jwt_token[c].payload =
                  [iat |-> now[c] - 60, exp |-> now[c] + 600, iss |-> args[c].app_id]
           /\ now[c] * TicksPerSec <= clock
           /\ (jwt_token[c].payload.exp - 600) * TicksPerSec <= clock
           /\ jwt_token[c].payload.exp - jwt_token[c].payload.iat = 660

C8_Witness ==
    \E c \in Callers :
        /\ pc[c] = "post" /\ Signed(c)
        /\ now[c] >= 1
        /\ clock > now[c] * TicksPerSec
        /\ jwt_token[c].payload.exp = now[c] + 600

\* everything a running call holds
Locals(c) == <<pc[c], args[c], key[c], now[c], jwt_token[c], posts[c], response[c],
               result[c]>>

\* the request of c's call names c's installation and carries an assertion
\* issued for c's app_id and signed with c's key
OwnRequest(c) ==
    \A i \in 1..Len(posts[c]) :
        /\ posts[c][i].url[2] = args[c].installation_id
        /\ posts[c][i].authorization.credentials.payload.iss = args[c].app_id
        /\ posts[c][i].authorization.credentials.payload.iat = now[c] - 60
        /\ posts[c][i].authorization.credentials.signer = key[c]

\* two calls given the same arguments and the same answer end the same way
SameInSameOut(c, d) ==
    (/\ pc[c] = "done" /\ pc[d] = "done"
     /\ args[c] = args[d]
     /\ response[c] = response[d])
    => /\ result[c] = result[d]
       /\ Len(posts[c]) = Len(posts[d])
       /\ \A i \in 1..Len(posts[c]) : posts[c][i].url = posts[d][i].url

\* a token a call returns is in the answer to that call's own request
OwnToken(c) ==
    (pc[c] = "done" /\ result[c].kind = "return")
    => \E i \in 1..Len(response[c].body) : response[c].body[i] = Str(result[c].value)

\* a step changes the locals of one call at most
OneCallPerStep ==
    \A c, d \in Callers : (c # d /\ Locals(c)' # Locals(c)) => Locals(d)' = Locals(d)

\* C9: with several callers running generate_installation_token at once, in
\* every interleaving each call's request and outcome are determined by its
\* own arguments, its own reading of the clock and the answer to its own
\* request, and no step of one call changes what another call holds.
C9_CallsAreIndependent ==
    [][/\ OneCallPerStep
       /\ \A c \in Callers : OwnRequest(c)' /\ OwnToken(c)'
       /\ \A c, d \in Callers : SameInSameOut(c, d)']_vars

C9_Witness ==
    \E c, d \in Callers :
        /\ args[c].app_id # args[d].app_id
        /\ args[c].installation_id # args[d].installation_id
        /\ pc[c] = "done" /\ result[c].kind = "return" /\ Len(posts[c]) = 1
        /\ pc[d] = "await" /\ Len(posts[d]) = 1
        /\ posts[c][1].url # posts[d][1].url

\* C10: a call normalizes, then signs, then exchanges, and posts at most once:
\* nothing before signing succeeded, exactly once after, whatever the authority
\* answers or if it cannot be reached, and never when signing failed; a token
\* is returned only after a request.
C10_OneExchangeAfterSigning ==
    \A c \in Callers :
        /\ Len(posts[c]) <= 1
        /\ pc[c] \in {"idle", "normalize", "sign", "encode"} => ~Signed(c)
        /\ pc[c] \in {"idle", "normalize", "sign", "encode", "post"} => posts[c] = <<>>
        /\ pc[c] = "await" => Len(posts[c]) = 1
        /\ pc[c] = "done" => Len(posts[c]) = (IF Signed(c) THEN 1 ELSE 0)
        /\ (pc[c] = "done" /\ result[c].type # INVALID_KEY) => Len(posts[c]) = 1
        /\ result[c].kind = "return" => Len(posts[c]) = 1
        /\ Signed(c) => /\ jwt_token[c].signer = key[c]
                        /\ LoadsAsPrivateKey(jwt_token[c].signer)
                        /\ args[c].private_key = EscapedBareKey
                               => jwt_token[c].signer = ValidPem
        /\ posts[c] # <<>> => /\ Signed(c)
                              /\ posts[c][1].authorization.credentials = jwt_token[c]

C10_Witness ==
    \E c, d \in Callers :
        /\ Answered(c) /\ response[c].status = 401 /\ Len(posts[c]) = 1
        /\ args[c].private_key = EscapedBareKey
        /\ pc[d] = "done" /\ result[d].type = "httpx.TransportError" /\ Len(posts[d]) = 1

====
